---- MODULE Spec2Model ----
(***************************************************************************)
(* Model of the secure_log ring buffer of activity_klog                    *)
(* (src/src/secure_log/log.c): the producers store_netlog_record and       *)
(* store_execlog_record, and the reader sessions of the character device   *)
(* (open, read, llseek).                                                   *)
(*                                                                         *)
(* Sizes and offsets are counted in cells of LOG_ALIGN / 2 bytes, so that  *)
(* a size_t (and LOG_ALIGN itself) spans two cells and a record size that  *)
(* is not a multiple of LOG_ALIGN can be represented.  The arena and the   *)
(* structures are scaled down; their proportions follow the source.        *)
(***************************************************************************)
EXTENDS Integers, Sequences, FiniteSets, TLC

(***************************************************************************)
(* Bounds of the model.                                                    *)
(***************************************************************************)
\* number of cells of the arena log_buf (log.h is not part of the sources)
LOG_BUF_LEN == 36
\* appends of the ring specification: until the next-write sequence is MaxSeq
MaxSeq == 4
\* appends of the concurrent specification
MaxConcSeq == 2
\* appends of the specification of a session that reads what was appended
MaxFitSeq == 3
\* appends of the specification of concurrent readers
MaxReadersSeq == 1
\* appends of the specification with fairness
MaxLiveSeq == 2
\* appends of the specification of the probe handlers
MaxSlotSeq == 1
\* appends of the specification of the session calls
MaxSessSeq == 3
\* appends of the specification of the copy to the caller
MaxCopySeq == 2
\* appends of the specification of the placement of records
MaxPlaceSeq == 4
\* longest strlen(path) and largest argv_size of that specification
MaxPlaceLen == 3
\* appends of the specification of the probe on sys_close
MaxCloseSeq == 2
\* categories of a mask requested or released at once (or all of them)
MaxMask == 2
\* longest strlen(path) a producer is called with
MaxStrLen == 1
\* largest argv_size store_execlog_record is called with
MaxArgv == 0

(***************************************************************************)
(* Program constants (in cells).                                           *)
(***************************************************************************)
LOG_ALIGN == 2
SizeofSizeT == 2
SizeofSecLog == 4
SizeofNetlogLog == 10
SizeofExeclogLog == 8
\* a size_t is two cells, little endian: value = low + Radix * high
Radix == 32768
INT_MAX == 2147483647
LOG_NETWORK_INTERACTION == 1
LOG_EXECUTION == 2
\* errno values returned by read()
EAGAIN == 11
EPIPE == 32
EINVAL == 22
EFAULT == 14
ERESTARTSYS == 512

\* rendering (in characters)
USER_BUFFER_SIZE == 40
SyslogHeaderLen == 6
SimpleHeaderLen == 3
DetailsLen == 2
NetlogTextLen == 3
BrokenTextLen == 14
UnknownTextLen == 13
\* the module parameter simple_format, at its default
simple_format == 0
SEEK_SET == 0
SEEK_CUR == 1
SEEK_END == 2

\* what a read that renders nothing shows
NoLine == [stamp |-> 0, type |-> 0, path |-> 0, argv |-> 0]
\* the outcome remembered for a session whose cursor was just set
NoOutcome == [res |-> "none", seq |-> 0, wrap |-> FALSE, line |-> NoLine]
\* the values of count read() is called with
Counts == {1, USER_BUFFER_SIZE}
\* the values of whence llseek() is called with
Whences == {SEEK_SET, SEEK_CUR, SEEK_END, 3}

Producers == {"p1", "p2"}
Threads == {"t1", "t2"}
Sessions == {"f1", "f2"}
\* value of a lock nobody holds
NoOwner == "none"

VARIABLES
    log_buf,         \* the arena: cell index -> cell value
    log_first_seq,   \* sequence number of the oldest retained record
    log_first_idx,   \* offset of the oldest retained record
    log_next_seq,    \* sequence number of the next record to store
    log_next_idx,    \* offset of the next record to store
    log_lock,        \* holder of the buffer spinlock, or NoOwner
    log_wait,        \* wait queue: the threads registered on log_wait
    first_read,      \* 1 until the first open()
    private_data,    \* set of sessions whose file has its user_data
    log_curr_seq,    \* per session: user_data.log_curr_seq
    log_curr_idx,    \* per session: user_data.log_curr_idx
    send_eof,        \* per session: user_data.send_eof
    data_lock,       \* per session: holder of user_data.lock, or NoOwner
    revents,         \* per session: the mask its last poll() returned
    ppc,             \* per producer: position in store_*_record
    prec,            \* per producer: locals (type, sizes, sequence seen)
    rpc,             \* per reader thread: position in secure_log_read
    rloc,            \* per reader thread: locals (file, ret, len) and the
                     \* O_NONBLOCK flag it last read from file->f_flags
    task_running,    \* per reader thread: FALSE between prepare_to_wait and its wake-up
    now,             \* clock read by fill_current_details
    hist,            \* history: the records appended so far, in append order
    trail,           \* per session: the outcome of its last read
    overrun,         \* TRUE once a write went outside the arena
    loaded_probes,   \* the bitmask loaded_probes, as the set of its categories
    registered,      \* per probe object: how often it is registered
    match_socket,    \* per pid: the socket kept between the two probes of a call
    incall,          \* per pid: the probed call it is inside, and whether the
                     \* return probe was armed when the call was entered
    plast,           \* per pid: the last begin or end observation
    lastreq,         \* the last plant_probe or unplant_probe call
    lastseek,        \* the last llseek() call: its arguments and return value
    opened           \* TRUE once an open() has returned

bufvars == <<log_buf, log_first_seq, log_first_idx, log_next_seq, log_next_idx>>
sessvars == <<private_data, log_curr_seq, log_curr_idx, send_eof, data_lock,
              revents>>
prodvars == <<ppc, prec>>
readvars == <<rpc, rloc, task_running>>
probevars == <<loaded_probes, registered, match_socket, incall, plast, lastreq>>
callvars == <<lastseek, opened>>
vars == <<log_buf, log_first_seq, log_first_idx, log_next_seq, log_next_idx,
          log_lock, log_wait, first_read, private_data, log_curr_seq,
          log_curr_idx, send_eof, data_lock, revents, ppc, prec, rpc, rloc,
          task_running, now, hist, trail, overrun, loaded_probes, registered,
          match_socket, incall, plast, lastreq, lastseek, opened>>

(***************************************************************************)
(* Helpers.                                                                *)
(***************************************************************************)
Max(a, b) == IF a > b THEN a ELSE b

Min(a, b) == IF a < b THEN a ELSE b

\* one cell of the arena; a read outside the arena finds no record data
Cell(buf, i) == IF i \in DOMAIN buf THEN buf[i] ELSE 0

\* reads the size_t stored at offset idx
ReadSizeT(buf, idx) == Cell(buf, idx) + Radix * Cell(buf, idx + 1)

\* the two cells of a size_t
SizeTCells(v) == <<v % Radix, v \div Radix>>

\* the arena after the cells were written from offset idx on
WriteCells(buf, idx, cells) ==
    [i \in DOMAIN buf |->
        IF i >= idx /\ i < idx + Len(cells) THEN cells[i - idx + 1] ELSE buf[i]]

\* the cells found in the arena at [idx, idx + n)
ReadCells(buf, idx, n) == [k \in 1..n |-> Cell(buf, idx + k - 1)]

\* does a write of n cells at idx leave the arena
OutOfArena(idx, n) == n > 0 /\ idx + n > LOG_BUF_LEN

\* the bytes of a path of strlen l, cut to path_len bytes (a byte is 1, NUL is 0)
PathCells(l, path_len) == [k \in 1..path_len |-> IF k <= l THEN 1 ELSE 0]

\* the bytes of an argument blob
ArgvCells(argv_size) == [k \in 1..argv_size |-> 1]

\* size += (-size) & (LOG_ALIGN - 1)
AlignUp(size) == size + ((LOG_ALIGN - (size % LOG_ALIGN)) % LOG_ALIGN)

(***************************************************************************)
(* next_record: the offset of the record after the one at idx.             *)
(***************************************************************************)
\* a walk that steps by the aligned length of the record
next_record_Aligned(buf, idx) ==
    IF ReadSizeT(buf, idx) = 0
    THEN 0
    ELSE idx + AlignUp(ReadSizeT(buf, idx))

\* (the sum stays below 2^32, the cast to u32 changes nothing)
next_record(buf, idx) ==
    IF ReadSizeT(buf, idx) = 0
    THEN 0
    ELSE idx + ReadSizeT(buf, idx)

(***************************************************************************)
(* find_new_record_place.                                                  *)
(***************************************************************************)
\* a free space that forgets the space before the oldest record
FreeSpace_EndOnly(next_idx, first_idx) ==
    IF next_idx > first_idx
    THEN LOG_BUF_LEN - next_idx
    ELSE first_idx - next_idx

\* the free space the loop computes
FreeSpace(next_idx, first_idx) ==
    IF next_idx > first_idx
    THEN Max(LOG_BUF_LEN - next_idx, first_idx)
    ELSE first_idx - next_idx

\* the while loop: drops old records until there is enough continuous space;
\* yields the new <<log_first_seq, log_first_idx>>
RECURSIVE DropOld(_, _, _, _)
DropOld(buf, fseq, fidx, size) ==
    IF fseq < log_next_seq
    THEN IF FreeSpace(log_next_idx, fidx) > size + SizeofSecLog
         THEN <<fseq, fidx>>
         ELSE DropOld(buf, fseq + 1, next_record(buf, fidx), size)
    ELSE <<fseq, fidx>>

\* a test that forgets the header kept free behind the record
MustWrap_NoHeader(next_idx, size) == next_idx + size >= LOG_BUF_LEN

\* does the record have to wrap around
MustWrap(next_idx, size) == next_idx + size + SizeofSecLog >= LOG_BUF_LEN

\* the whole function: the new first_seq, first_idx, next_idx and arena
find_new_record_place(record_size) ==
    LET size == AlignUp(record_size)
        first == DropOld(log_buf, log_first_seq, log_first_idx, size)
    IN  IF MustWrap(log_next_idx, size)
        THEN [first_seq |-> first[1], first_idx |-> first[2], next_idx |-> 0,
              buf |-> WriteCells(log_buf, log_next_idx, SizeTCells(0)),
              marker |-> TRUE]
        ELSE [first_seq |-> first[1], first_idx |-> first[2],
              next_idx |-> log_next_idx, buf |-> log_buf, marker |-> FALSE]

(***************************************************************************)
(* Values of the network probes.                                           *)
(***************************************************************************)
\* the categories of probes, the bits of a mask of probes
Categories == {"PROBE_TCP_CONNECT", "PROBE_TCP_ACCEPT", "PROBE_TCP_CLOSE",
               "PROBE_UDP_CONNECT", "PROBE_UDP_BIND", "PROBE_UDP_CLOSE"}

\* the two categories served by the probe on sys_close
CloseCategories == {"PROBE_TCP_CLOSE", "PROBE_UDP_CLOSE"}

\* the probe objects
Hooks == {"stream_connect_jprobe", "stream_connect_kretprobe",
          "dgram_connect_jprobe", "dgram_connect_kretprobe",
          "accept_kretprobe", "close_jprobe", "bind_kretprobe", "bind_jprobe"}

\* the value of "no probe object fails to register in this call"
NoHook == "none"

\* the return value 0 of plant_probe
NoError == "0"

\* the last request before any request was made
NoRequest == [op |-> "none", probe |-> {}, was |-> {}, err |-> NoError]

\* the value of a socket pointer that points to no socket
NULL == "NULL"

\* the sockets
Handles == {"X", "Y"}

\* a pid that is inside no probed function
NoCall == [call |-> "none", armed |-> FALSE]

\* a pid whose probes have observed nothing yet
NoObservation == [op |-> "none", sock |-> NULL]

(***************************************************************************)
(* Initial state: the module is loaded, the arena is zeroed static memory, *)
(* no session is open, no producer and no reader is running.               *)
(***************************************************************************)
NoRecord == [type |-> 0, record_size |-> 0, path_len |-> 0, argv_len |-> 0,
             strlen |-> 0, seq |-> 0, idx |-> 0, stamp |-> 0]

NoRead == [file |-> "none", nonblock |-> FALSE, ret |-> 0, len |-> 0,
           count |-> 0, copied |-> 0]

\* before the first llseek() call
NoSeek == [file |-> "none", offset |-> 0, whence |-> 0, ret |-> 0]

Init ==
    /\ log_buf = [i \in 0..(LOG_BUF_LEN - 1) |-> 0]
    /\ log_first_seq = 0
    /\ log_first_idx = 0
    /\ log_next_seq = 0
    /\ log_next_idx = 0
    /\ log_lock = NoOwner
    /\ log_wait = {}
    /\ first_read = 1
    /\ private_data = {}
    /\ log_curr_seq = [s \in Sessions |-> 0]
    /\ log_curr_idx = [s \in Sessions |-> 0]
    /\ send_eof = [s \in Sessions |-> 0]
    /\ data_lock = [s \in Sessions |-> NoOwner]
    /\ revents = [s \in Sessions |-> {}]
    /\ ppc = [p \in Producers |-> "idle"]
    /\ prec = [p \in Producers |-> NoRecord]
    /\ rpc = [t \in Threads |-> "idle"]
    /\ rloc = [t \in Threads |-> NoRead]
    /\ task_running = [t \in Threads |-> TRUE]
    /\ now = 1
    /\ hist = <<>>
    /\ trail = [s \in Sessions |-> NoOutcome]
    /\ overrun = FALSE
    /\ loaded_probes = {}
    /\ registered = [h \in Hooks |-> 0]
    /\ match_socket = [p \in Producers |-> NULL]
    /\ incall = [p \in Producers |-> NoCall]
    /\ plast = [p \in Producers |-> NoObservation]
    /\ lastreq = NoRequest
    /\ lastseek = NoSeek
    /\ opened = FALSE

(***************************************************************************)
(* The buffer spinlock log_lock.                                           *)
(***************************************************************************)
\* a lock that excludes nobody
spin_lock_irqsave_NoExclusion(holder) == TRUE

\* spin_lock_irqsave(&log_lock): may the caller enter
spin_lock_irqsave(holder) == holder = NoOwner

\* an unlock that leaves the lock with its holder
spin_unlock_irqrestore_Keep(holder) == holder

\* spin_unlock_irqrestore(&log_lock): the holder afterwards
spin_unlock_irqrestore(holder) == NoOwner

(***************************************************************************)
(* Producers: store_netlog_record and store_execlog_record.                *)
(***************************************************************************)
\* a producer that stores every length as it is
Truncate_None(len, shift) == len

\* the truncation of a length to LOG_BUF_LEN >> shift
Truncate(len, shift) ==
    IF len > (LOG_BUF_LEN \div (2 ^ shift)) \/ len > INT_MAX
    THEN Min(LOG_BUF_LEN \div (2 ^ shift), INT_MAX)
    ELSE len

\* the effect of find_new_record_place on the ring buffer state
PlaceRecord(record_size) ==
    LET place == find_new_record_place(record_size)
    IN  /\ log_first_seq' = place.first_seq
        /\ log_first_idx' = place.first_idx
        /\ log_next_idx' = place.next_idx
        /\ log_buf' = place.buf
        /\ overrun' = (overrun \/ (place.marker
                                   /\ OutOfArena(log_next_idx, SizeofSizeT)))

\* store_netlog_record up to find_new_record_place: sizes the record, takes
\* log_lock and finds the place of the record
store_netlog_record(p, l, appends) ==
    /\ ppc[p] = "idle"
    /\ log_next_seq < appends
    /\ spin_lock_irqsave(log_lock)
    /\ LET path_len == Truncate(l + 1, 4)
           record_size == SizeofNetlogLog + path_len
       IN  /\ prec' = [prec EXCEPT ![p] =
                          [type |-> LOG_NETWORK_INTERACTION,
                           record_size |-> record_size, path_len |-> path_len,
                           argv_len |-> 0, strlen |-> l, seq |-> 0, idx |-> 0,
                           stamp |-> 0]]
           /\ PlaceRecord(record_size)
    /\ log_lock' = p
    /\ ppc' = [ppc EXCEPT ![p] = "fill"]
    /\ UNCHANGED <<log_next_seq, log_wait, first_read, sessvars, readvars,
                   now, hist, trail>>

\* store_execlog_record up to find_new_record_place
store_execlog_record(p, l, argv, appends) ==
    /\ ppc[p] = "idle"
    /\ log_next_seq < appends
    /\ spin_lock_irqsave(log_lock)
    /\ LET path_len == Truncate(l + 1, 5)
           argv_size == Truncate(argv, 5)
           record_size == SizeofExeclogLog + path_len + argv_size
       IN  /\ prec' = [prec EXCEPT ![p] =
                          [type |-> LOG_EXECUTION,
                           record_size |-> record_size, path_len |-> path_len,
                           argv_len |-> argv_size, strlen |-> l, seq |-> 0,
                           idx |-> 0, stamp |-> 0]]
           /\ PlaceRecord(record_size)
    /\ log_lock' = p
    /\ ppc' = [ppc EXCEPT ![p] = "fill"]
    /\ UNCHANGED <<log_next_seq, log_wait, first_read, sessvars, readvars,
                   now, hist, trail>>

\* the cells of struct netlog_log followed by the path
NetlogCells(r, stamp) ==
    SizeTCells(r.record_size) \o <<stamp, LOG_NETWORK_INTERACTION>>
    \o SizeTCells(r.path_len) \o <<1, 1, 1, 1>>
    \o PathCells(r.strlen, r.path_len)

\* the cells of struct execlog_log followed by the path and the arguments
ExeclogCells(r, stamp) ==
    SizeTCells(r.record_size) \o <<stamp, LOG_EXECUTION>>
    \o SizeTCells(r.path_len) \o SizeTCells(r.argv_len)
    \o PathCells(r.strlen, r.path_len) \o ArgvCells(r.argv_len)

\* the cells a producer writes for its record
RecordCells(r, stamp) ==
    IF r.type = LOG_NETWORK_INTERACTION
    THEN NetlogCells(r, stamp)
    ELSE ExeclogCells(r, stamp)

\* the stores into the record at log_buf + log_next_idx
FillRecord(p) ==
    /\ ppc[p] = "fill"
    /\ log_buf' = WriteCells(log_buf, log_next_idx, RecordCells(prec[p], now))
    /\ overrun' = (overrun \/ OutOfArena(log_next_idx, prec[p].record_size))
    /\ now' = now + 1
    /\ prec' = [prec EXCEPT ![p].seq = log_next_seq, ![p].idx = log_next_idx,
                            ![p].stamp = now]
    /\ ppc' = [ppc EXCEPT ![p] = "advance"]
    /\ UNCHANGED <<log_first_seq, log_first_idx, log_next_seq, log_next_idx,
                   log_lock, log_wait, first_read, sessvars, readvars, hist,
                   trail, probevars,
                   callvars>>

\* the sequence number after an append
NextSeq(seq) == seq + 1

\* "Update the next position" and the release of log_lock
AdvanceNext(p) ==
    /\ ppc[p] = "advance"
    /\ log_next_idx' = log_next_idx + prec[p].record_size
    /\ log_next_seq' = NextSeq(log_next_seq)
    /\ hist' = Append(hist, [seq |-> prec[p].seq, idx |-> prec[p].idx,
                             type |-> prec[p].type,
                             cells |-> RecordCells(prec[p], prec[p].stamp),
                             line |-> [stamp |-> prec[p].stamp,
                                       type |-> prec[p].type,
                                       path |-> Min(prec[p].strlen,
                                                    prec[p].path_len),
                                       argv |-> prec[p].argv_len]])
    /\ log_lock' = spin_unlock_irqrestore(log_lock)
    /\ ppc' = [ppc EXCEPT ![p] = "wake"]
    /\ UNCHANGED <<log_buf, log_first_seq, log_first_idx, log_wait,
                   first_read, sessvars, prec, readvars, now, trail, overrun,
                   probevars,
                   callvars>>

\* a wake-up that reaches nobody
wake_up_interruptible_Nobody(queue, running) == {}

\* wake_up_interruptible(&log_wait): the threads it makes runnable
wake_up_interruptible(queue, running) == {t \in queue : ~running[t]}

\* "Wake-up reading threads"
WakeReaders(p) ==
    /\ ppc[p] = "wake"
    /\ task_running' = [t \in Threads |->
                           IF t \in wake_up_interruptible(log_wait, task_running)
                           THEN TRUE ELSE task_running[t]]
    /\ log_wait' = log_wait \ wake_up_interruptible(log_wait, task_running)
    /\ ppc' = [ppc EXCEPT ![p] = "idle"]
    /\ prec' = [prec EXCEPT ![p] = NoRecord]
    /\ UNCHANGED <<bufvars, log_lock, first_read, sessvars, rpc, rloc, now,
                   hist, trail, overrun, probevars,
                   callvars>>

(***************************************************************************)
(* Rendering of a record (secure_log_read_fill_record and the printers).   *)
(***************************************************************************)
\* characters "%.*s" prints: up to prec characters, stopping at a NUL
PrintedChars(buf, start, precision) ==
    Cardinality({k \in 0..(Min(precision, LOG_BUF_LEN) - 1) :
                    \A j \in 0..k : Cell(buf, start + j) # 0})

\* UPDATE_POINTERS: the text is added unless it does not fit
UpdatePointers(change, len) ==
    IF len = 0 \/ change >= USER_BUFFER_SIZE - len THEN 0 ELSE len + change

\* netlog_print: the length after the payload of a network record, 0 if cut
netlog_print(buf, ridx, len) ==
    IF ReadSizeT(buf, ridx) < SizeofNetlogLog
    THEN UpdatePointers(BrokenTextLen, len)
    ELSE UpdatePointers(NetlogTextLen,
             UpdatePointers(
                 PrintedChars(buf, ridx + SizeofNetlogLog,
                              ReadSizeT(buf, ridx + SizeofSecLog)) + 1, len))

\* execlog_print: the length after the payload of an execution record
execlog_print(buf, ridx, len) ==
    IF ReadSizeT(buf, ridx) < SizeofExeclogLog
    THEN UpdatePointers(BrokenTextLen, len)
    ELSE LET path_len == ReadSizeT(buf, ridx + SizeofSecLog)
             argv_len == ReadSizeT(buf, ridx + SizeofSecLog + SizeofSizeT)
         IN  UpdatePointers(
                 PrintedChars(buf, ridx + SizeofExeclogLog, path_len) + 1
                 + PrintedChars(buf, ridx + SizeofExeclogLog + path_len,
                                argv_len), len)

\* strlen(get_module_name(type))
ModuleNameLen(type) ==
    IF type = LOG_NETWORK_INTERACTION THEN 6 ELSE 7

\* secure_log_read_fill_record: the length of the line of the record at ridx
secure_log_read_fill_record(buf, ridx, len) ==
    LET type == Cell(buf, ridx + SizeofSizeT + 1)
        hdr == len + DetailsLen + 1
        body == IF type = LOG_NETWORK_INTERACTION
                THEN netlog_print(buf, ridx, hdr)
                ELSE IF type = LOG_EXECUTION
                     THEN execlog_print(buf, ridx, hdr)
                     ELSE hdr + UnknownTextLen
    IN  (IF body = 0 THEN USER_BUFFER_SIZE - 2 ELSE body) + 1

\* the length of the line secure_log_read formats for the record at ridx
LineLen(buf, ridx) ==
    LET type == Cell(buf, ridx + SizeofSizeT + 1)
        len == (IF simple_format = 0 THEN SyslogHeaderLen ELSE SimpleHeaderLen)
               + ModuleNameLen(type)
    IN  secure_log_read_fill_record(buf, ridx, len)

\* what the line shows of the record at ridx: its time stamp, kind and strings
LineOf(buf, ridx) ==
    LET type == Cell(buf, ridx + SizeofSizeT + 1)
        fixed == IF type = LOG_EXECUTION THEN SizeofExeclogLog
                 ELSE SizeofNetlogLog
        path_len == ReadSizeT(buf, ridx + SizeofSecLog)
    IN  [stamp |-> Cell(buf, ridx + SizeofSizeT),
         type |-> type,
         path |-> PrintedChars(buf, ridx + fixed, path_len),
         argv |-> IF type = LOG_EXECUTION
                  THEN PrintedChars(buf, ridx + fixed + path_len,
                           ReadSizeT(buf, ridx + SizeofSecLog + SizeofSizeT))
                  ELSE 0]

(***************************************************************************)
(* Reader sessions.                                                        *)
(***************************************************************************)
\* an open() that leaves first_read set
ClearFirstRead_Keep(first) == first

\* first_read = 0
ClearFirstRead(first) == 0

\* secure_log_open
secure_log_open(s, eof) ==
    /\ s \notin private_data
    /\ spin_lock_irqsave(log_lock)
    /\ private_data' = private_data \cup {s}
    /\ send_eof' = [send_eof EXCEPT ![s] = eof]
    /\ IF first_read = 1
       THEN /\ log_curr_seq' = [log_curr_seq EXCEPT ![s] = log_first_seq]
            /\ log_curr_idx' = [log_curr_idx EXCEPT ![s] = log_first_idx]
       ELSE /\ log_curr_seq' = [log_curr_seq EXCEPT ![s] = log_next_seq]
            /\ log_curr_idx' = [log_curr_idx EXCEPT ![s] = log_next_idx]
    /\ first_read' = IF first_read = 1 THEN ClearFirstRead(first_read)
                                       ELSE first_read
    /\ opened' = TRUE
    /\ data_lock' = [data_lock EXCEPT ![s] = NoOwner]
    /\ trail' = [trail EXCEPT ![s] = NoOutcome]
    /\ UNCHANGED <<bufvars, log_lock, log_wait, prodvars, readvars, now,
                   hist, overrun, revents, probevars, lastseek>>

\* secure_log_llseek
secure_log_llseek(s, offset, whence) ==
    /\ s \in private_data
    /\ offset = 0 => spin_lock_irqsave(log_lock)
    /\ IF offset # 0 \/ whence \notin {SEEK_SET, SEEK_END}
       THEN UNCHANGED <<log_curr_seq, log_curr_idx, trail>>
       ELSE /\ log_curr_seq' = [log_curr_seq EXCEPT ![s] =
                   IF whence = SEEK_SET THEN log_first_seq ELSE log_next_seq]
            /\ log_curr_idx' = [log_curr_idx EXCEPT ![s] =
                   IF whence = SEEK_SET THEN log_first_idx ELSE log_next_idx]
            /\ trail' = [trail EXCEPT ![s] = NoOutcome]
    /\ UNCHANGED <<bufvars, log_lock, log_wait, first_read, private_data,
                   send_eof, data_lock, revents, prodvars, readvars, now,
                   hist, overrun, probevars, opened>>

\* an llseek() that tests whence before the offset
secure_log_llseek_ret_WhenceFirst(offset, whence) ==
    IF whence \notin {SEEK_SET, SEEK_CUR, SEEK_END} THEN -EINVAL ELSE 0

\* the value secure_log_llseek returns
secure_log_llseek_ret(offset, whence) ==
    IF offset # 0 THEN 0
    ELSE IF whence \in {SEEK_SET, SEEK_CUR, SEEK_END} THEN 0 ELSE -EINVAL

\* an llseek() call with its arguments and return value remembered
Seek(s, offset, whence) ==
    /\ secure_log_llseek(s, offset, whence)
    /\ lastseek' = [file |-> s, offset |-> offset, whence |-> whence,
                    ret |-> secure_log_llseek_ret(offset, whence)]

\* secure_log_release: the user_data of the session is freed; no call on the
\* file is in progress when the file is released
secure_log_release(s) ==
    /\ s \in private_data
    /\ \A t \in Threads : rloc[t].file # s
    /\ private_data' = private_data \ {s}
    /\ log_curr_seq' = [log_curr_seq EXCEPT ![s] = 0]
    /\ log_curr_idx' = [log_curr_idx EXCEPT ![s] = 0]
    /\ send_eof' = [send_eof EXCEPT ![s] = 0]
    /\ revents' = [revents EXCEPT ![s] = {}]
    /\ trail' = [trail EXCEPT ![s] = NoOutcome]
    /\ UNCHANGED <<bufvars, log_lock, log_wait, first_read, data_lock,
                   prodvars, readvars, now, hist, overrun, probevars,
                   callvars>>

\* a poll() that never reports lost data
PollEvents_NoLoss(curr_seq, first_seq, next_seq) ==
    IF curr_seq < next_seq THEN {"POLLIN", "POLLRDNORM"} ELSE {}

\* "Check if there is anything to read": ret of secure_log_poll
PollEvents(curr_seq, first_seq, next_seq) ==
    IF curr_seq < next_seq
    THEN IF curr_seq < first_seq
         THEN {"POLLIN", "POLLRDNORM", "POLLERR", "POLLPRI"}
         ELSE {"POLLIN", "POLLRDNORM"}
    ELSE {}

\* secure_log_poll: the mask poll() returns for the session
secure_log_poll(s) ==
    /\ s \in private_data
    /\ spin_lock_irqsave(log_lock)
    /\ revents' = [revents EXCEPT ![s] =
                      PollEvents(log_curr_seq[s], log_first_seq, log_next_seq)]
    /\ UNCHANGED <<bufvars, log_lock, log_wait, first_read, private_data,
                   log_curr_seq, log_curr_idx, send_eof, data_lock, prodvars,
                   readvars, now, hist, trail, overrun, probevars,
                   callvars>>

\* a session mutex that excludes nobody
mutex_lock_interruptible_NoExclusion(owner) == TRUE

\* mutex_lock_interruptible(&data->lock): may the caller take the mutex
mutex_lock_interruptible(owner) == owner = NoOwner

\* read() is called on session s
ReadCall(t, s) ==
    /\ rpc[t] = "idle"
    /\ s \in private_data
    /\ rloc' = [rloc EXCEPT ![t] = [NoRead EXCEPT !.file = s]]
    /\ rpc' = [rpc EXCEPT ![t] = "mutex"]
    /\ UNCHANGED <<bufvars, log_lock, log_wait, first_read, sessvars, prodvars,
                   task_running, now, hist, trail, overrun, probevars,
                   callvars>>

\* "Is the user already reading ?": the session mutex is taken
ReadMutexLock(t) ==
    /\ rpc[t] = "mutex"
    /\ mutex_lock_interruptible(data_lock[rloc[t].file])
    /\ data_lock' = [data_lock EXCEPT ![rloc[t].file] = t]
    /\ rpc' = [rpc EXCEPT ![t] = "spin"]
    /\ UNCHANGED <<bufvars, log_lock, log_wait, first_read, private_data,
                   log_curr_seq, log_curr_idx, send_eof, revents, prodvars,
                   rloc, task_running, now, hist, trail, overrun, probevars,
                   callvars>>

\* the wait for the session mutex is interrupted: read() returns the error
ReadMutexInterrupted(t) ==
    /\ rpc[t] = "mutex"
    /\ ~mutex_lock_interruptible(data_lock[rloc[t].file])
    /\ rpc' = [rpc EXCEPT ![t] = "idle"]
    /\ rloc' = [rloc EXCEPT ![t] = NoRead]
    /\ UNCHANGED <<bufvars, log_lock, log_wait, first_read, sessvars, prodvars,
                   task_running, now, hist, trail, overrun, probevars,
                   callvars>>

\* spin_lock_irqsave(&log_lock) of secure_log_read
ReadSpinLock(t) ==
    /\ rpc[t] = "spin"
    /\ spin_lock_irqsave(log_lock)
    /\ log_lock' = t
    /\ rpc' = [rpc EXCEPT ![t] = "check"]
    /\ UNCHANGED <<bufvars, log_wait, first_read, sessvars, prodvars, rloc,
                   task_running, now, hist, trail, overrun, probevars,
                   callvars>>

\* a wait loop that lets the reader go on at the next-write sequence
NothingToRead_Beyond(s) == log_curr_seq[s] > log_next_seq

\* the condition of the wait loop: nothing to read for the session
NothingToRead(s) == log_curr_seq[s] = log_next_seq

\* a wait loop that tests the end-of-stream mode first
WaitLoopExit_EofFirst(nonblock, eof) ==
    IF eof # 0 THEN "EOF" ELSE IF nonblock THEN "EAGAIN" ELSE "wait"

\* what the wait loop does when there is nothing to read
WaitLoopExit(nonblock, eof) ==
    IF nonblock THEN "EAGAIN" ELSE IF eof # 0 THEN "EOF" ELSE "wait"

\* "Wait until we have something to read": one test of the while condition
ReadWaitLoop(t, nonblock) ==
    /\ rpc[t] = "check"
    /\ LET s == rloc[t].file
           exit == WaitLoopExit(nonblock, send_eof[s])
       IN  IF NothingToRead(s)
           THEN /\ log_lock' = spin_unlock_irqrestore(log_lock)
                /\ rpc' = [rpc EXCEPT ![t] =
                              IF exit = "wait" THEN "wait" ELSE "out"]
                /\ rloc' = [rloc EXCEPT ![t].nonblock = nonblock,
                                        ![t].ret = IF exit = "EAGAIN"
                                                   THEN -EAGAIN ELSE 0]
           ELSE /\ rpc' = [rpc EXCEPT ![t] = "overflow"]
                /\ UNCHANGED <<log_lock, rloc>>
    /\ UNCHANGED <<bufvars, log_wait, first_read, sessvars, prodvars,
                   task_running, now, hist, trail, overrun, probevars,
                   callvars>>

\* wait_event_interruptible: the condition is tested before any wait
ReadWaitEvent(t) ==
    /\ rpc[t] = "wait"
    /\ rpc' = [rpc EXCEPT ![t] =
                  IF NothingToRead(rloc[t].file) THEN "prepare" ELSE "spin"]
    /\ UNCHANGED <<bufvars, log_lock, log_wait, first_read, sessvars, prodvars,
                   rloc, task_running, now, hist, trail, overrun, probevars,
                   callvars>>

\* wait_event_interruptible: prepare_to_wait registers the thread on log_wait
ReadPrepareToWait(t) ==
    /\ rpc[t] = "prepare"
    /\ log_wait' = log_wait \cup {t}
    /\ task_running' = [task_running EXCEPT ![t] = FALSE]
    /\ rpc' = [rpc EXCEPT ![t] = "recheck"]
    /\ UNCHANGED <<bufvars, log_lock, first_read, sessvars, prodvars, rloc,
                   now, hist, trail, overrun, probevars,
                   callvars>>

\* wait_event_interruptible: the condition is tested again once registered,
\* then a pending signal ends the wait, else the thread calls schedule()
ReadWaitRecheck(t, signal) ==
    /\ rpc[t] = "recheck"
    /\ IF ~NothingToRead(rloc[t].file)
       THEN /\ rpc' = [rpc EXCEPT ![t] = "spin"]
            /\ log_wait' = log_wait \ {t}
            /\ task_running' = [task_running EXCEPT ![t] = TRUE]
            /\ UNCHANGED rloc
       ELSE IF signal
            THEN /\ rpc' = [rpc EXCEPT ![t] = "out"]
                 /\ rloc' = [rloc EXCEPT ![t].ret = -ERESTARTSYS]
                 /\ log_wait' = log_wait \ {t}
                 /\ task_running' = [task_running EXCEPT ![t] = TRUE]
            ELSE /\ rpc' = [rpc EXCEPT ![t] = "sleep"]
                 /\ UNCHANGED <<rloc, log_wait, task_running>>
    /\ UNCHANGED <<bufvars, log_lock, first_read, sessvars, prodvars, now,
                   hist, trail, overrun, probevars,
                   callvars>>

\* schedule() returns once the thread was made runnable
ReadSchedule(t) ==
    /\ rpc[t] = "sleep"
    /\ task_running[t]
    /\ rpc' = [rpc EXCEPT ![t] = "prepare"]
    /\ UNCHANGED <<bufvars, log_lock, log_wait, first_read, sessvars, prodvars,
                   rloc, task_running, now, hist, trail, overrun, probevars,
                   callvars>>

\* a signal makes a thread runnable that sleeps in schedule()
SignalWake(t) ==
    /\ rpc[t] = "sleep"
    /\ ~task_running[t]
    /\ task_running' = [task_running EXCEPT ![t] = TRUE]
    /\ UNCHANGED <<bufvars, log_lock, log_wait, first_read, sessvars, prodvars,
                   rpc, rloc, now, hist, trail, overrun, probevars,
                   callvars>>

\* "Perhaps we waited for too long and some data is lost"
ReadOverflow(t) ==
    /\ rpc[t] = "overflow"
    /\ LET s == rloc[t].file
       IN  IF log_curr_seq[s] < log_first_seq
           THEN /\ log_curr_seq' = [log_curr_seq EXCEPT ![s] = log_first_seq]
                /\ log_curr_idx' = [log_curr_idx EXCEPT ![s] = log_first_idx]
                /\ log_lock' = spin_unlock_irqrestore(log_lock)
                /\ rloc' = [rloc EXCEPT ![t].ret = -EPIPE]
                /\ rpc' = [rpc EXCEPT ![t] = "out"]
                /\ trail' = [trail EXCEPT ![s] =
                                [res |-> "EPIPE", seq |-> log_curr_seq[s],
                                 wrap |-> FALSE, line |-> NoLine]]
           ELSE /\ rpc' = [rpc EXCEPT ![t] = "render"]
                /\ UNCHANGED <<log_curr_seq, log_curr_idx, log_lock, rloc,
                               trail>>
    /\ UNCHANGED <<bufvars, log_wait, first_read, private_data, send_eof,
                   data_lock, revents, prodvars, task_running, now, hist,
                   overrun, probevars,
                   callvars>>

\* the record secure_log_read renders for a cursor at idx
CurrentRecord(buf, idx) == IF ReadSizeT(buf, idx) = 0 THEN 0 ELSE idx

\* "Get the current record", format it, "Prepare for next iteration", unlock
ReadRender(t) ==
    /\ rpc[t] = "render"
    /\ LET s == rloc[t].file
           ridx == CurrentRecord(log_buf, log_curr_idx[s])
       IN  /\ rloc' = [rloc EXCEPT ![t].len = LineLen(log_buf, ridx)]
           /\ log_curr_idx' = [log_curr_idx EXCEPT ![s] =
                                  next_record(log_buf, log_curr_idx[s])]
           /\ log_curr_seq' = [log_curr_seq EXCEPT ![s] = @ + 1]
           /\ trail' = [trail EXCEPT ![s] =
                           [res |-> "line", seq |-> log_curr_seq[s],
                            wrap |-> (ridx # log_curr_idx[s]),
                            line |-> LineOf(log_buf, ridx)]]
    /\ log_lock' = spin_unlock_irqrestore(log_lock)
    /\ rpc' = [rpc EXCEPT ![t] = "copy"]
    /\ UNCHANGED <<bufvars, log_wait, first_read, private_data, send_eof,
                   data_lock, revents, prodvars, task_running, now, hist,
                   overrun, probevars,
                   callvars>>

\* a test that lets a line of count + 1 characters through
TooSmall_OffByOne(len, count) == len > count + 1

\* "The user buffer is too small, abort": len > count
TooSmall(len, count) == len > count

\* "The user buffer is too small, abort", "Copy the data into userspace":
\* count and the number of characters the caller got are remembered
\* (count, the size of the caller's buffer, is read here only)
ReadCopy(t, count, fault) ==
    /\ rpc[t] = "copy"
    /\ rloc' = [rloc EXCEPT
                   ![t].ret = IF TooSmall(rloc[t].len, count) THEN -EINVAL
                              ELSE IF fault THEN -EFAULT ELSE rloc[t].len,
                   ![t].count = count,
                   ![t].copied = IF TooSmall(rloc[t].len, count) \/ fault
                                 THEN 0 ELSE rloc[t].len]
    /\ rpc' = [rpc EXCEPT ![t] = "out"]
    /\ UNCHANGED <<bufvars, log_lock, log_wait, first_read, sessvars, prodvars,
                   task_running, now, hist, trail, overrun, probevars,
                   callvars>>

\* an unlock that leaves the mutex with its owner
mutex_unlock_Keep(owner) == owner

\* mutex_unlock(&data->lock): the owner afterwards
mutex_unlock(owner) == NoOwner

\* out: the session mutex is released and read() returns ret
ReadOut(t) ==
    /\ rpc[t] = "out"
    /\ data_lock' = [data_lock EXCEPT ![rloc[t].file] = mutex_unlock(@)]
    /\ rpc' = [rpc EXCEPT ![t] = "idle"]
    /\ rloc' = [rloc EXCEPT ![t] = NoRead]
    /\ UNCHANGED <<bufvars, log_lock, log_wait, first_read, private_data,
                   log_curr_seq, log_curr_idx, send_eof, revents, prodvars,
                   task_running, now, hist, trail, overrun, probevars,
                   callvars>>

(***************************************************************************)
(* The network probes: planting and unplanting (netlog).                   *)
(***************************************************************************)
\* register_jprobe / register_kretprobe that succeeded
Register(reg, h) == [reg EXCEPT ![h] = @ + 1]

\* unplant_jprobe / unplant_kretprobe
Unregister(reg, h) == [reg EXCEPT ![h] = @ - 1]

\* plant_jprobe, plant_kretprobe: the registration fails for the object fail
plant_hook(reg, h, fail) ==
    IF h = fail
    THEN [reg |-> reg, err |-> "FAILED"]
    ELSE [reg |-> Register(reg, h), err |-> NoError]

\* plant_tcp_connect, plant_udp_connect, plant_udp_bind: the jprobe, then the
\* kretprobe; the jprobe is unplanted again when the kretprobe fails
plant_pair(reg, jprobe, kretprobe, fail, code) ==
    LET j == plant_hook(reg, jprobe, fail)
        k == plant_hook(j.reg, kretprobe, fail)
    IN  IF j.err # NoError
        THEN [reg |-> reg, err |-> code]
        ELSE IF k.err # NoError
             THEN [reg |-> Unregister(j.reg, jprobe), err |-> code]
             ELSE [reg |-> k.reg, err |-> NoError]

plant_tcp_connect(reg, fail) ==
    plant_pair(reg, "stream_connect_jprobe", "stream_connect_kretprobe", fail,
               "CONNECT_PROBE_FAILED")

plant_udp_connect(reg, fail) ==
    plant_pair(reg, "dgram_connect_jprobe", "dgram_connect_kretprobe", fail,
               "CONNECT_PROBE_FAILED")

plant_tcp_accept(reg, fail) ==
    LET k == plant_hook(reg, "accept_kretprobe", fail)
    IN  IF k.err # NoError
        THEN [reg |-> reg, err |-> "ACCEPT_PROBE_FAILED"]
        ELSE k

plant_close(reg, fail) ==
    LET j == plant_hook(reg, "close_jprobe", fail)
    IN  IF j.err # NoError
        THEN [reg |-> reg, err |-> "CLOSE_PROBE_FAILED"]
        ELSE j

plant_udp_bind(reg, fail) ==
    plant_pair(reg, "bind_jprobe", "bind_kretprobe", fail, "BIND_PROBE_FAILED")

\* a request that plants every category of the mask again
new_probes_All(probe, loaded) == probe

\* new_probes = (probe ^ loaded_probes) & probe
new_probes(probe, loaded) == ((probe \ loaded) \cup (loaded \ probe)) \cap probe

\* one "if (new_probes & (1 << PROBE_...))" of plant_probe, reached with the
\* state st of the call: nothing after a failure (goto unlock), else the
\* category is planted by r and, on success, added to loaded_probes
PlantCategory(st, new, cat, r) ==
    IF st.err # NoError \/ cat \notin new
    THEN st
    ELSE IF r.err # NoError
         THEN [st EXCEPT !.err = r.err, !.reg = r.reg]
         ELSE [st EXCEPT !.loaded = @ \cup {cat}, !.reg = r.reg]

\* the probe on sys_close is planted unless the other close category has it
PlantCloseUnless(st, other, fail) ==
    IF other \notin st.loaded
    THEN plant_close(st.reg, fail)
    ELSE [reg |-> st.reg, err |-> NoError]

\* plant_probe: loaded_probes, the registrations and the return value
PlantResult(probe, fail) ==
    LET new == new_probes(probe, loaded_probes)
        s0 == [loaded |-> loaded_probes, reg |-> registered, err |-> NoError]
        s1 == PlantCategory(s0, new, "PROBE_TCP_CONNECT",
                            plant_tcp_connect(s0.reg, fail))
        s2 == PlantCategory(s1, new, "PROBE_TCP_ACCEPT",
                            plant_tcp_accept(s1.reg, fail))
        s3 == PlantCategory(s2, new, "PROBE_TCP_CLOSE",
                            PlantCloseUnless(s2, "PROBE_UDP_CLOSE", fail))
        s4 == PlantCategory(s3, new, "PROBE_UDP_CONNECT",
                            plant_udp_connect(s3.reg, fail))
        s5 == PlantCategory(s4, new, "PROBE_UDP_BIND",
                            plant_udp_bind(s4.reg, fail))
    IN  PlantCategory(s5, new, "PROBE_UDP_CLOSE",
                      PlantCloseUnless(s5, "PROBE_TCP_CLOSE", fail))

\* plant_probe(probe), the registration of the object fail failing
plant_probe(probe, fail) ==
    LET st == PlantResult(probe, fail)
    IN  /\ loaded_probes' = st.loaded
        /\ registered' = st.reg
        /\ lastreq' = [op |-> "plant", probe |-> probe, was |-> loaded_probes,
                       err |-> st.err]
        /\ UNCHANGED <<bufvars, log_lock, log_wait, first_read, sessvars,
                       prodvars, readvars, now, hist, trail, overrun,
                       match_socket, incall, plast, callvars>>

\* a release that unplants the probe on sys_close at once
CloseStillNeeded_Never(loaded) == FALSE

\* loaded_probes & ((1 << PROBE_TCP_CLOSE) | (1 << PROBE_UDP_CLOSE))
CloseStillNeeded(loaded) == loaded \cap CloseCategories # {}

\* the registrations after the unplant_* calls for the removed categories
UnplantResult(removed, loaded) ==
    LET r1 == IF "PROBE_TCP_CONNECT" \in removed
              THEN Unregister(Unregister(registered, "stream_connect_jprobe"),
                              "stream_connect_kretprobe")
              ELSE registered
        r2 == IF "PROBE_TCP_ACCEPT" \in removed
              THEN Unregister(r1, "accept_kretprobe")
              ELSE r1
        r3 == IF removed \cap CloseCategories # {} /\ ~CloseStillNeeded(loaded)
              THEN Unregister(r2, "close_jprobe")
              ELSE r2
        r4 == IF "PROBE_UDP_CONNECT" \in removed
              THEN Unregister(Unregister(r3, "dgram_connect_jprobe"),
                              "dgram_connect_kretprobe")
              ELSE r3
    IN  IF "PROBE_UDP_BIND" \in removed
        THEN Unregister(Unregister(r4, "bind_jprobe"), "bind_kretprobe")
        ELSE r4

\* the jprobe on the entry of a probed function
JprobeOf(call) ==
    IF call = "inet_stream_connect" THEN "stream_connect_jprobe"
    ELSE IF call = "inet_dgram_connect" THEN "dgram_connect_jprobe"
    ELSE "bind_jprobe"

\* the kretprobe on the return of a probed function
KretprobeOf(call) ==
    IF call = "inet_stream_connect" THEN "stream_connect_kretprobe"
    ELSE IF call = "inet_dgram_connect" THEN "dgram_connect_kretprobe"
    ELSE "bind_kretprobe"

\* unregister_kretprobe: the return handler no longer runs for a call that
\* was entered before
Disarm(c, reg) ==
    IF c.call # "none" /\ reg[KretprobeOf(c.call)] = 0
    THEN [c EXCEPT !.armed = FALSE]
    ELSE c

\* unplant_probe(probe): unplant_probe_locked under probe_lock
unplant_probe(probe) ==
    LET removed_probes == loaded_probes \cap probe
        left == (loaded_probes \ removed_probes)
                    \cup (removed_probes \ loaded_probes)
    IN  /\ loaded_probes' = left
        /\ registered' = UnplantResult(removed_probes, left)
        /\ lastreq' = [op |-> "unplant", probe |-> probe,
                       was |-> loaded_probes, err |-> NoError]
        /\ incall' = [p \in Producers |->
                         Disarm(incall[p], UnplantResult(removed_probes, left))]
        /\ UNCHANGED <<bufvars, log_lock, log_wait, first_read, sessvars,
                       prodvars, readvars, now, hist, trail, overrun,
                       match_socket, plast, callvars>>

(***************************************************************************)
(* The network probes: the handlers around a probed function.              *)
(***************************************************************************)
\* the ring buffer, the sessions and the readers, which a handler that logs
\* nothing leaves alone
logvars == <<bufvars, log_lock, log_wait, first_read, sessvars, prodvars,
             readvars, now, hist, trail, overrun>>

\* pre_inet_stream_connect, pre_inet_dgram_connect: the socket is kept
KeepSocket(slots, pid, sock) == [slots EXCEPT ![pid] = sock]

\* pre_sys_bind: the socket sockfd_lookup found is kept, if it found one
KeepSocketIfFound(slots, pid, sock) ==
    IF sock # NULL THEN [slots EXCEPT ![pid] = sock] ELSE slots

\* the function is entered by pid with its jprobe planted: the handler has
\* run with the slots it leaves, and the return probe is armed if planted
EnterProbed(pid, call, sock, slots) ==
    /\ ppc[pid] = "idle"
    /\ incall[pid].call = "none"
    /\ registered[JprobeOf(call)] > 0
    /\ match_socket' = slots
    /\ plast' = [plast EXCEPT ![pid] = [op |-> "begin", sock |-> sock]]
    /\ incall' = [incall EXCEPT ![pid] =
                     [call |-> call,
                      armed |-> registered[KretprobeOf(call)] > 0]]
    /\ UNCHANGED <<logvars, loaded_probes, registered, lastreq, callvars>>

pre_inet_stream_connect(pid, sock) ==
    EnterProbed(pid, "inet_stream_connect", sock,
                KeepSocket(match_socket, pid, sock))

pre_inet_dgram_connect(pid, sock) ==
    EnterProbed(pid, "inet_dgram_connect", sock,
                KeepSocket(match_socket, pid, sock))

\* (sock is what sockfd_lookup yields for the descriptor, NULL for none)
pre_sys_bind(pid, sock) ==
    EnterProbed(pid, "sys_bind", sock,
                KeepSocketIfFound(match_socket, pid, sock))

\* a return handler that leaves the socket in the slot
ClearSocket_Keep(slots, pid) == slots

\* match_socket[current->pid] = NULL
ClearSocket(slots, pid) == [slots EXCEPT ![pid] = NULL]

\* the return handler of a probed function: it takes the socket of the slot,
\* logs it if there is one and logs says so (the socket is of the family and
\* the protocol of the probe, the path of the process is known and not
\* whitelisted), and empties the slot
ReturnProbed(pid, call, logs, appends) ==
    /\ incall[pid].call = call
    /\ incall[pid].armed
    /\ IF logs /\ match_socket[pid] # NULL
       THEN store_netlog_record(pid, 0, appends)
       ELSE UNCHANGED logvars
    /\ match_socket' = ClearSocket(match_socket, pid)
    /\ plast' = [plast EXCEPT ![pid] =
                    [op |-> "end", sock |-> match_socket[pid]]]
    /\ incall' = [incall EXCEPT ![pid] = NoCall]
    /\ UNCHANGED <<loaded_probes, registered, lastreq, callvars>>

post_inet_stream_connect(pid, logs, appends) ==
    ReturnProbed(pid, "inet_stream_connect", logs, appends)

post_inet_dgram_connect(pid, logs, appends) ==
    ReturnProbed(pid, "inet_dgram_connect", logs, appends)

post_sys_bind(pid, logs, appends) ==
    ReturnProbed(pid, "sys_bind", logs, appends)

\* the sockets a descriptor passed to close() can stand for: a connected TCP
\* socket, a listening TCP socket (no destination port), a bound UDP socket,
\* an unbound UDP socket (no source port) and a socket of another family
CloseSockets == {"tcp", "tcp_listening", "udp", "udp_unbound", "unix"}

\* sock->sk->sk_family
sk_family(sock) == IF sock = "unix" THEN "AF_UNIX" ELSE "AF_INET"

\* sock->sk->sk_protocol
sk_protocol(sock) ==
    IF sock \in {"tcp", "tcp_listening"} THEN "IPPROTO_TCP"
    ELSE IF sock \in {"udp", "udp_unbound"} THEN "IPPROTO_UDP"
    ELSE "0"

\* inet_sk(sock->sk)->DPORT and inet_sk(sock->sk)->SPORT
DPORT(sock) == IF sock = "tcp" THEN 1 ELSE 0
SPORT(sock) == IF sock \in {"tcp", "tcp_listening", "udp"} THEN 1 ELSE 0

\* a test that takes the hook on sys_close for both categories
CategoryLoaded_Hook(loaded, category) == registered["close_jprobe"] > 0

\* loaded_probes & (1 << category)
CategoryLoaded(loaded, category) == category \in loaded

\* the protocol pre_sys_close passes to log_if_not_whitelisted, "none" when
\* it does not call it
CloseProtocol(sock, loaded) ==
    IF sock = NULL \/ sk_family(sock) \notin {"AF_INET", "AF_INET6"}
    THEN "none"
    ELSE IF /\ CategoryLoaded(loaded, "PROBE_TCP_CLOSE")
            /\ sk_protocol(sock) = "IPPROTO_TCP"
            /\ DPORT(sock) # 0
         THEN "PROTO_TCP"
         ELSE IF /\ CategoryLoaded(loaded, "PROBE_UDP_CLOSE")
                 /\ sk_protocol(sock) = "IPPROTO_UDP"
                 /\ SPORT(sock) # 0
              THEN "PROTO_UDP"
              ELSE "none"

\* the handler of the probe on sys_close: sock is what sockfd_lookup yields
\* for the descriptor, path says whether log_if_not_whitelisted finds the
\* path of the process and stores the record
pre_sys_close(pid, sock, path, appends) ==
    /\ ppc[pid] = "idle"
    /\ incall[pid].call = "none"
    /\ registered["close_jprobe"] > 0
    /\ LET protocol == CloseProtocol(sock, loaded_probes)
       IN  /\ IF protocol # "none" /\ path
              THEN store_netlog_record(pid, 0, appends)
              ELSE UNCHANGED logvars
           /\ plast' = [plast EXCEPT ![pid] =
                           [op |-> IF protocol # "none" /\ path
                                   THEN protocol ELSE "close",
                            sock |-> sock]]
    /\ UNCHANGED <<loaded_probes, registered, match_socket, incall, lastreq,
                   callvars>>

\* the probed function returns with its return probe not armed or unplanted
\* since: no handler runs
ReturnUnprobed(pid) ==
    /\ incall[pid].call # "none"
    /\ ~incall[pid].armed
    /\ incall' = [incall EXCEPT ![pid] = NoCall]
    /\ UNCHANGED <<logvars, loaded_probes, registered, match_socket, plast,
                   lastreq, callvars>>

(***************************************************************************)
(* The specification.                                                      *)
(***************************************************************************)
\* a producer that stores records of both kinds, with paths of at most
\* strlen bytes and arguments of at most argv bytes
Produce(p, appends, strlen, argv) ==
    \/ \E l \in 0..strlen :
           store_netlog_record(p, l, appends) /\ UNCHANGED <<probevars, callvars>>
    \/ \E l \in 0..strlen, a \in 0..argv :
           store_execlog_record(p, l, a, appends) /\ UNCHANGED <<probevars, callvars>>
    \/ FillRecord(p)
    \/ AdvanceNext(p)
    \/ WakeReaders(p)

\* a thread that is alone on its session never waits for the session mutex
Read(t, S) ==
    \/ \E s \in S : ReadCall(t, s)
    \/ ReadMutexLock(t)
    \/ ReadSpinLock(t)
    \/ \E nonblock \in BOOLEAN : ReadWaitLoop(t, nonblock)
    \/ ReadWaitEvent(t)
    \/ ReadPrepareToWait(t)
    \/ \E signal \in BOOLEAN : ReadWaitRecheck(t, signal)
    \/ ReadSchedule(t)
    \/ SignalWake(t)
    \/ ReadOverflow(t)
    \/ ReadRender(t)
    \/ \E count \in Counts, fault \in BOOLEAN : ReadCopy(t, count, fault)
    \/ ReadOut(t)

Session(s) ==
    \/ \E eof \in {0, 1} : secure_log_open(s, eof)
    \/ \E offset \in {0, 1}, whence \in Whences :
           secure_log_llseek(s, offset, whence) /\ UNCHANGED lastseek

\* a producer that stores network records of one path only
ProduceOne(p, appends) ==
    \/ store_netlog_record(p, 0, appends) /\ UNCHANGED <<probevars, callvars>>
    \/ FillRecord(p)
    \/ AdvanceNext(p)
    \/ WakeReaders(p)

\* concurrent producers of records with an empty path and no argument, one
\* reader thread on one session
Next ==
    \/ \E p \in Producers : Produce(p, MaxConcSeq, 0, 0)
    \/ Read("t1", {"f1"})
    \/ Session("f1")

Spec == Init /\ [][Next]_vars

\* one producer, one reader thread and one session, more appends
RingNext ==
    \/ Produce("p1", MaxSeq, MaxStrLen, MaxArgv)
    \/ Read("t1", {"f1"})
    \/ Session("f1")

RingSpec == Init /\ [][RingNext]_vars

\* one producer, one session sought to the oldest record only, and one
\* thread that reads it without blocking into a buffer of the largest size
FitNext ==
    \/ Produce("p1", MaxFitSeq, MaxStrLen, MaxArgv)
    \/ ReadCall("t1", "f1")
    \/ ReadMutexLock("t1")
    \/ ReadSpinLock("t1")
    \/ ReadWaitLoop("t1", TRUE)
    \/ ReadOverflow("t1")
    \/ ReadRender("t1")
    \/ ReadCopy("t1", USER_BUFFER_SIZE, FALSE)
    \/ ReadOut("t1")
    \/ secure_log_open("f1", 0)
    \/ secure_log_llseek("f1", 0, SEEK_SET) /\ UNCHANGED lastseek

FitSpec == Init /\ [][FitNext]_vars

\* one producer, concurrent reader threads on two sessions
ReadersNext ==
    \/ ProduceOne("p1", MaxReadersSeq)
    \/ \E t \in Threads : Read(t, Sessions) \/ ReadMutexInterrupted(t)
    \/ \E s \in Sessions : Session(s) \/ secure_log_poll(s)

ReadersSpec == Init /\ [][ReadersNext]_vars

\* one producer and one reader thread on a session that is not sought, with
\* the progress the scheduler gives to a thread inside a handler: a producer
\* that entered store_netlog_record finishes it, a reader inside read() takes
\* its next step; calls, signals and faults are left to the environment
LiveNext ==
    \/ ProduceOne("p1", MaxLiveSeq)
    \/ Read("t1", {"f1"})
    \/ \E eof \in {0, 1} : secure_log_open("f1", eof)

ReadProgress(t) ==
    \/ ReadMutexLock(t)
    \/ ReadSpinLock(t)
    \/ \E nonblock \in BOOLEAN : ReadWaitLoop(t, nonblock)
    \/ ReadWaitEvent(t)
    \/ ReadPrepareToWait(t)
    \/ ReadWaitRecheck(t, FALSE)
    \/ ReadSchedule(t)
    \/ ReadOverflow(t)
    \/ ReadRender(t)
    \/ \E count \in Counts, fault \in BOOLEAN : ReadCopy(t, count, fault)
    \/ ReadOut(t)

LiveSpec ==
    /\ Init
    /\ [][LiveNext]_vars
    /\ WF_vars(FillRecord("p1"))
    /\ WF_vars(AdvanceNext("p1"))
    /\ WF_vars(WakeReaders("p1"))
    /\ WF_vars(ReadProgress("t1"))

\* one producer whose records are evicted, two sessions that are opened,
\* polled and released in any order, and one thread that reads the first
\* session without blocking and seeks it
SessNext ==
    \/ ProduceOne("p1", MaxSessSeq)
    \/ ReadCall("t1", "f1")
    \/ ReadMutexLock("t1")
    \/ ReadSpinLock("t1")
    \/ ReadWaitLoop("t1", TRUE)
    \/ ReadOverflow("t1")
    \/ ReadRender("t1")
    \/ ReadCopy("t1", USER_BUFFER_SIZE, FALSE)
    \/ ReadOut("t1")
    \/ \E offset \in {0, 1}, whence \in Whences : Seek("f1", offset, whence)
    \/ \E s \in Sessions :
           \/ secure_log_open(s, 0) /\ UNCHANGED lastseek
           \/ secure_log_poll(s)
           \/ secure_log_release(s)

SessSpec == Init /\ [][SessNext]_vars

\* one producer of records of both kinds and of several lengths, and one
\* thread that reads one session without blocking into buffers of every
\* size, with and without a fault of the copy
CopyNext ==
    \/ Produce("p1", MaxCopySeq, MaxStrLen, MaxArgv)
    \/ ReadCall("t1", "f1")
    \/ ReadMutexLock("t1")
    \/ ReadSpinLock("t1")
    \/ ReadWaitLoop("t1", TRUE)
    \/ ReadOverflow("t1")
    \/ ReadRender("t1")
    \/ \E count \in 0..USER_BUFFER_SIZE, fault \in BOOLEAN :
           ReadCopy("t1", count, fault)
    \/ ReadOut("t1")
    \/ secure_log_open("f1", 0) /\ UNCHANGED lastseek

CopySpec == Init /\ [][CopyNext]_vars

\* one producer of records of both kinds with paths and arguments shorter
\* and longer than the caps, and nobody else: the placement of the records
PlaceNext == Produce("p1", MaxPlaceSeq, MaxPlaceLen, MaxPlaceLen)

PlaceSpec == Init /\ [][PlaceNext]_vars

\* the masks requested and released: a few categories, or all (unplant_all)
ProbeMasks ==
    {m \in SUBSET Categories : Cardinality(m) <= MaxMask} \cup {Categories}

\* requests and releases of the masks in any order, any registration failing
ProbeNext ==
    \/ \E probe \in ProbeMasks, fail \in Hooks \cup {NoHook} :
           plant_probe(probe, fail)
    \/ \E probe \in ProbeMasks : unplant_probe(probe)

ProbeSpec == Init /\ [][ProbeNext]_vars

\* the masks requested and released in the specification of the handlers
SlotMasks == {{"PROBE_TCP_CONNECT"}, {"PROBE_UDP_CONNECT"}, {"PROBE_UDP_BIND"}}

\* one pid that makes the probed calls, with the probes planted and unplanted
\* meanwhile, and the appends the return handlers start
SlotNext ==
    \/ \E probe \in SlotMasks, fail \in Hooks \cup {NoHook} :
           plant_probe(probe, fail)
    \/ \E probe \in SlotMasks : unplant_probe(probe)
    \/ \E sock \in Handles : pre_inet_stream_connect("p1", sock)
    \/ \E sock \in Handles : pre_inet_dgram_connect("p1", sock)
    \/ \E sock \in Handles \cup {NULL} : pre_sys_bind("p1", sock)
    \/ \E logs \in BOOLEAN : post_inet_stream_connect("p1", logs, MaxSlotSeq)
    \/ \E logs \in BOOLEAN : post_inet_dgram_connect("p1", logs, MaxSlotSeq)
    \/ \E logs \in BOOLEAN : post_sys_bind("p1", logs, MaxSlotSeq)
    \/ ReturnUnprobed("p1")
    \/ FillRecord("p1")
    \/ AdvanceNext("p1")
    \/ WakeReaders("p1")

SlotSpec == Init /\ [][SlotNext]_vars

\* the masks of the two categories served by the probe on sys_close
CloseMasks == {{"PROBE_TCP_CLOSE"}, {"PROBE_UDP_CLOSE"}}

\* one pid that closes descriptors of every kind while the two close
\* categories are planted and unplanted, and the appends the handler starts
CloseNext ==
    \/ \E probe \in CloseMasks, fail \in {"close_jprobe", NoHook} :
           plant_probe(probe, fail)
    \/ \E probe \in CloseMasks : unplant_probe(probe)
    \/ \E sock \in CloseSockets \cup {NULL}, path \in BOOLEAN :
           pre_sys_close("p1", sock, path, MaxCloseSeq)
    \/ FillRecord("p1")
    \/ AdvanceNext("p1")
    \/ WakeReaders("p1")

CloseSpec == Init /\ [][CloseNext]_vars

(***************************************************************************)
(* Properties.                                                             *)
(***************************************************************************)
\* the positions at which a producer is inside the log_lock section
InStore == {"fill", "advance"}

\* C1: for any interleaving of the producers, the records receive the
\* sequence numbers 0, 1, 2, ... in append order, without gap and without
\* reuse, and the next-write sequence is the number of records appended;
\* a producer inside the section writes the record of the next-write sequence.
C1_ConsecutiveSequence ==
    /\ log_next_seq = Len(hist)
    /\ \A i \in 1..Len(hist) : hist[i].seq = i - 1
    /\ \A p \in Producers : ppc[p] = "advance" => prec[p].seq = log_next_seq

\* C1 witness: one producer has appended record 0 and has not yet woken the
\* readers while the other one is inside the section with record 1
C1_Witness ==
    \E p, q \in Producers :
        /\ p # q
        /\ ppc[p] = "wake"
        /\ ppc[q] = "advance"
        /\ prec[q].seq = 1
        /\ Len(hist) = 1

\* C2: a read() renders only a record whose sequence number is below the
\* next-write sequence, holding log_lock while no producer is inside a
\* record; the next-write sequence is advanced only by the producer that
\* holds log_lock, once all cells of its record are in the arena.
C2_NoPartialRecord ==
    /\ [](\A t \in Threads : rpc[t] = "render" =>
            /\ log_curr_seq[rloc[t].file] < log_next_seq
            /\ log_lock = t
            /\ \A p \in Producers : ppc[p] \notin InStore)
    /\ [][log_next_seq' # log_next_seq =>
            \E p \in Producers :
                /\ ppc[p] = "advance"
                /\ log_lock = p
                /\ ReadCells(log_buf, log_next_idx, prec[p].record_size)
                       = RecordCells(prec[p], prec[p].stamp)]_vars

\* C2 witness: a reader renders a record while a producer that has just
\* appended has not yet woken the readers and the other one starts no append
C2_Witness ==
    /\ rpc["t1"] = "render"
    /\ \E p \in Producers : ppc[p] = "wake"
    /\ log_curr_seq["f1"] + 1 = log_next_seq


\* the records a walk from idx visits: n records of the sequence numbers
\* seq, seq + 1, ... each with the cells that were appended; the walk jumps
\* to offset 0 at the wrap marker and steps by the stored length. Yields the
\* offset where the walk ends, -1 if a record on the way is not intact.
RECURSIVE ChainWalk(_, _, _, _)
ChainWalk(buf, idx, seq, n) ==
    IF n = 0
    THEN idx
    ELSE LET r == CurrentRecord(buf, idx)
         IN  IF /\ seq + 1 \in 1..Len(hist)
                /\ ReadCells(buf, r, Len(hist[seq + 1].cells))
                       = hist[seq + 1].cells
             THEN ChainWalk(buf, r + ReadSizeT(buf, r), seq + 1, n - 1)
             ELSE -1

\* C3: whenever no producer is inside an append, oldest sequence <= next
\* sequence, and the walk from the oldest offset visits exactly
\* (next sequence - oldest sequence) intact records in sequence order and
\* ends at the next-write offset.
C3_ChainOfRecords ==
    (\A p \in Producers : ppc[p] \notin InStore) =>
        /\ log_first_seq <= log_next_seq
        /\ ChainWalk(log_buf, log_first_idx, log_first_seq,
                     log_next_seq - log_first_seq) = log_next_idx

\* C4: the read that follows a read across the wrap marker delivers the
\* record appended after the one at offset 0 (time stamps count the appends),
\* so the record at offset 0 is delivered once.
C4_WrapDeliveredOnce ==
    [][\A s \in Sessions :
          (/\ trail[s].res = "line"
           /\ trail[s].wrap
           /\ trail'[s] # trail[s]
           /\ trail'[s].res = "line")
          => trail'[s].line.stamp = trail[s].line.stamp + 1]_vars

\* C5: the read that follows a data-loss result delivers the oldest retained
\* record, that is the record appended with the sequence number the cursor
\* was set to.
C5_ResumeAtOldest ==
    [][\A s \in Sessions :
          (/\ trail[s].res = "EPIPE"
           /\ trail'[s] # trail[s]
           /\ trail'[s].res = "line")
          => trail'[s].line = hist[trail'[s].seq + 1].line]_vars

\* no record was evicted and no record was placed after a wraparound
NoWrapNoEvict ==
    /\ log_first_seq = 0
    /\ \A i \in 2..Len(hist) : hist[i].idx > hist[i - 1].idx

\* the offset of the record of sequence number seq when nothing has wrapped
OffsetOf(seq) ==
    IF seq < Len(hist)
    THEN hist[seq + 1].idx
    ELSE IF Len(hist) = 0
         THEN 0
         ELSE hist[Len(hist)].idx + Len(hist[Len(hist)].cells)

\* C6: as long as no record was evicted and nothing wrapped around, the
\* cursor of every open session is at a record that was appended or at the
\* next-write position, no read reports a loss, and every read delivers the
\* record of the sequence number the cursor had, with the content that was
\* appended, and moves the cursor to the record after it.
C6_ReadsReproduceAppends ==
    NoWrapNoEvict =>
        \A s \in private_data :
            /\ log_curr_seq[s] <= log_next_seq
            /\ log_curr_idx[s] = OffsetOf(log_curr_seq[s])
            /\ trail[s].res # "EPIPE"
            /\ trail[s].res = "line" =>
                   /\ trail[s].seq + 1 = log_curr_seq[s]
                   /\ trail[s].line = hist[trail[s].seq + 1].line

\* C6 witness: two records were appended without wraparound, the session
\* has read both and its cursor is at the next-write sequence
C6_Witness ==
    /\ NoWrapNoEvict
    /\ Len(hist) = 2
    /\ "f1" \in private_data
    /\ trail["f1"].res = "line"
    /\ trail["f1"].seq = 1
    /\ trail["f1"].line = hist[2].line
    /\ log_curr_seq["f1"] = log_next_seq
    /\ rpc["t1"] = "idle"

\* the positions of a reader inside wait_event_interruptible
Waiting == {"wait", "prepare", "recheck", "sleep"}

C8_NoSuspend ==
    /\ [](\A t \in Threads : rpc[t] \in Waiting =>
              /\ ~rloc[t].nonblock
              /\ send_eof[rloc[t].file] = 0)
    /\ [][\A t \in Threads :
              (/\ rpc[t] = "check"
               /\ rpc'[t] # "check"
               /\ NothingToRead(rloc[t].file)
               /\ (rloc'[t].nonblock \/ send_eof[rloc[t].file] # 0))
              => /\ rpc'[t] = "out"
                 /\ rloc'[t].ret = (IF rloc'[t].nonblock THEN -EAGAIN ELSE 0)
                 /\ log_curr_seq'[rloc[t].file] = log_curr_seq[rloc[t].file]
                 /\ log_curr_idx'[rloc[t].file] = log_curr_idx[rloc[t].file]
                 /\ log_lock' = NoOwner]_vars
    /\ [][\A t \in Threads :
              (rpc[t] = "out" /\ rpc'[t] = "idle")
              => data_lock'[rloc[t].file] = NoOwner]_vars

\* C8 witness: a non-blocking read of a session in end-of-stream mode leaves
\* with -EAGAIN
C8_Witness ==
    /\ rpc["t1"] = "out"
    /\ rloc["t1"].ret = -EAGAIN
    /\ send_eof["f1"] = 1
    /\ NothingToRead("f1")

\* the positions of a reader that holds the mutex of its session
InRead == {"spin", "check", "wait", "prepare", "recheck", "sleep",
           "overflow", "render", "copy", "out"}

\* C9: at most one thread is inside read() past the mutex of a session, and
\* it is the holder of that mutex; a thread that waits for the mutex waits
\* for a reader of its own session; a reader that waits for data holds
\* neither the buffer lock nor the mutex of another session, so that when
\* the buffer lock is free a read of another session can take its mutex and
\* the poll() and the seek of another session can run.
C9_SessionExclusion ==
    /\ \A s \in Sessions :
           Cardinality({t \in Threads :
                           rpc[t] \in InRead /\ rloc[t].file = s}) <= 1
    /\ \A t \in Threads : rpc[t] \in InRead => data_lock[rloc[t].file] = t
    /\ \A t \in Threads :
           (rpc[t] = "mutex" /\ data_lock[rloc[t].file] # NoOwner) =>
               rloc[data_lock[rloc[t].file]].file = rloc[t].file
    /\ \A t \in Threads : rpc[t] \in Waiting =>
           /\ log_lock # t
           /\ \A s \in Sessions \ {rloc[t].file} :
                  /\ data_lock[s] # t
                  /\ \A u \in Threads \ {t} :
                         (rpc[u] = "mutex" /\ rloc[u].file = s
                          /\ data_lock[s] = NoOwner)
                             => ENABLED ReadMutexLock(u)
                  /\ (s \in private_data /\ log_lock = NoOwner) =>
                         /\ ENABLED secure_log_poll(s)
                         /\ ENABLED secure_log_llseek(s, 0, SEEK_SET)

\* C9 witness: one thread sleeps in the read of a session while another
\* thread has rendered a record in the read of another session
C9_Witness ==
    \E t, u \in Threads :
        /\ rpc[t] = "sleep"
        /\ rpc[u] = "copy"
        /\ rloc[t].file # rloc[u].file

\* C10: a reader inside the wait does not hold log_lock; a reader holds it
\* only from the test of the wait loop to the end of the rendering, so an
\* idle producer enters its append whenever no thread is in such a section.
C10_NoLockWhileWaiting ==
    /\ \A t \in Threads : rpc[t] \in Waiting => log_lock # t
    /\ \A t \in Threads :
           log_lock = t => rpc[t] \in {"check", "overflow", "render"}
    /\ \A p \in Producers :
           (/\ ppc[p] = "idle"
            /\ log_next_seq < MaxConcSeq
            /\ \A q \in Producers : ppc[q] \notin InStore
            /\ \A t \in Threads : rpc[t] \notin {"check", "overflow", "render"})
           => ENABLED store_netlog_record(p, 0, MaxConcSeq)

\* C10 witness: a producer is inside an append while the reader sleeps
C10_Witness ==
    /\ rpc["t1"] = "sleep"
    /\ ~task_running["t1"]
    /\ \E p \in Producers : ppc[p] = "fill"

\* C11: a wait that ends in the wait queue without data ends with
\* -ERESTARTSYS; a read() that carries this result holds its session mutex
\* and not log_lock, the cursor of its session is where the read found it (at
\* the next-write sequence unless appends came since), and its next step
\* returns: it releases the session mutex, touches no cursor and takes no lock.
C11_InterruptedRead ==
    /\ [](\A t \in Threads :
              (rpc[t] = "out" /\ rloc[t].ret = -ERESTARTSYS) =>
                  /\ log_lock # t
                  /\ data_lock[rloc[t].file] = t)
    /\ [][\A t \in Threads :
              (rpc[t] = "recheck" /\ rpc'[t] \notin {"recheck", "sleep", "spin"})
              => /\ rpc'[t] = "out"
                 /\ rloc'[t].ret = -ERESTARTSYS
                 /\ NothingToRead(rloc[t].file)
                 /\ t \notin log_wait'
                 /\ UNCHANGED <<log_curr_seq, log_curr_idx, log_lock>>]_vars
    /\ [][\A t \in Threads :
              (rpc[t] = "out" /\ rloc[t].ret = -ERESTARTSYS /\ rpc'[t] # "out")
              => /\ rpc'[t] = "idle"
                 /\ data_lock'[rloc[t].file] = NoOwner
                 /\ UNCHANGED <<log_curr_seq, log_curr_idx, log_lock>>]_vars

\* C11 witness: the wait of the reader was interrupted while a producer is
\* inside an append
C11_Witness ==
    /\ rpc["t1"] = "out"
    /\ rloc["t1"].ret = -ERESTARTSYS
    /\ \E p \in Producers : ppc[p] = "fill"

(***************************************************************************)
(* Network probes: requests and releases of categories.                    *)
(***************************************************************************)
\* C12: a request (plant_probe) that returns an error leaves loaded_probes as
\* it was before the call and has unplanted every hook it planted itself
C12_FailedRequestRolledBack ==
    [][(lastreq'.op = "plant" /\ lastreq'.err # NoError)
       => /\ loaded_probes' = loaded_probes
          /\ registered' = registered]_vars

\* C13: the probe on sys_close is registered once while PROBE_TCP_CLOSE or
\* PROBE_UDP_CLOSE is loaded and not at all otherwise, through all requests
\* and releases with any registration failing
C13_SharedCloseHook ==
    registered["close_jprobe"] =
        IF loaded_probes \cap CloseCategories # {} THEN 1 ELSE 0

\* both close categories were loaded, the last release took one of them away
\* and the probe on sys_close is still planted
C13_Witness ==
    /\ lastreq.op = "unplant"
    /\ CloseCategories \subseteq lastreq.was
    /\ Cardinality(lastreq.probe \cap CloseCategories) = 1
    /\ Cardinality(loaded_probes \cap CloseCategories) = 1
    /\ registered["close_jprobe"] = 1

\* C14: a request of categories that are all loaded registers nothing, leaves
\* loaded_probes alone and returns 0; a release of categories none of which
\* is loaded unregisters nothing and leaves loaded_probes alone; after a
\* request that returned 0 every category of its mask is loaded, so that the
\* same request once more changes nothing
C14_Idempotent ==
    [][/\ (lastreq'.op = "plant" /\ lastreq'.probe \subseteq loaded_probes)
          => /\ loaded_probes' = loaded_probes
             /\ registered' = registered
             /\ lastreq'.err = NoError
       /\ (lastreq'.op = "unplant" /\ lastreq'.probe \cap loaded_probes = {})
          => /\ loaded_probes' = loaded_probes
             /\ registered' = registered
       /\ (lastreq'.op = "plant" /\ lastreq'.err = NoError)
          => lastreq'.probe \subseteq loaded_probes']_vars

\* a request of loaded categories has followed a request that loaded them
C14_Witness ==
    /\ lastreq.op = "plant"
    /\ lastreq.probe # {}
    /\ lastreq.probe \subseteq lastreq.was
    /\ lastreq.probe \subseteq loaded_probes
    /\ \A h \in Hooks : registered[h] <= 1

(***************************************************************************)
(* Network probes: the socket kept between entry and return.               *)
(***************************************************************************)
\* in this step the return handler runs for the call pid is in
EndStep(pid) ==
    /\ incall[pid].call # "none"
    /\ incall[pid].armed
    /\ incall'[pid].call = "none"

\* C15: a return handler gets the socket the last entry handler of its pid
\* kept and empties the slot, and gets NULL when that handler kept nothing or
\* a return handler has emptied the slot since; a socket kept by an earlier
\* entry handler whose return handler did not run is never handed out
C15_EndReturnsLastBegin ==
    [][\A pid \in Producers :
           EndStep(pid)
           => /\ plast'[pid].op = "end"
              /\ plast'[pid].sock =
                     IF plast[pid].op = "begin" THEN plast[pid].sock ELSE NULL
              /\ match_socket'[pid] = NULL]_vars

\* C16: a return handler that follows an entry handler which kept the socket
\* X gets X, and after every return handler the slot of its pid is empty, so
\* that a further return handler would get NULL
C16_BeginEnd ==
    /\ [](\A pid \in Producers :
              plast[pid].op = "end" => match_socket[pid] = NULL)
    /\ [][\A pid \in Producers :
              (EndStep(pid) /\ plast[pid].op = "begin" /\ plast[pid].sock # NULL)
              => /\ plast'[pid] = [op |-> "end", sock |-> plast[pid].sock]
                 /\ match_socket[pid] = plast[pid].sock]_vars

\* the return handler of pid p1 got the socket X and has started its record
C16_Witness ==
    /\ plast["p1"] = [op |-> "end", sock |-> "X"]
    /\ ppc["p1"] = "fill"
    /\ match_socket["p1"] = NULL

(***************************************************************************)
(* Session calls: poll, llseek, open and the copy to the caller.           *)
(***************************************************************************)
\* C17: poll() of a session returns POLLIN|POLLRDNORM exactly when the cursor
\* sequence differs from log_next_seq, adds POLLERR|POLLPRI exactly when the
\* cursor sequence is below log_first_seq, and leaves the cursor alone
C17_PollReadiness ==
    \A s \in private_data :
        log_lock = NoOwner =>
            ENABLED (/\ secure_log_poll(s)
                     /\ ({"POLLIN", "POLLRDNORM"} \subseteq revents'[s])
                            <=> (log_curr_seq[s] # log_next_seq)
                     /\ ({"POLLIN", "POLLRDNORM"} \cap revents'[s] # {})
                            <=> (log_curr_seq[s] # log_next_seq)
                     /\ ({"POLLERR", "POLLPRI"} \subseteq revents'[s])
                            <=> (log_curr_seq[s] < log_first_seq)
                     /\ ({"POLLERR", "POLLPRI"} \cap revents'[s] # {})
                            <=> (log_curr_seq[s] < log_first_seq)
                     /\ log_curr_seq'[s] = log_curr_seq[s]
                     /\ log_curr_idx'[s] = log_curr_idx[s])

\* poll() has reported lost data for a session whose cursor is still below
\* the oldest record, and nothing to read for the other session
C17_Witness ==
    /\ revents["f1"] = {"POLLIN", "POLLRDNORM", "POLLERR", "POLLPRI"}
    /\ log_curr_seq["f1"] < log_first_seq
    /\ "f2" \in private_data
    /\ revents["f2"] = {}
    /\ log_curr_seq["f2"] = log_next_seq
    /\ log_next_seq > 0

\* the cursor of session s after a step
CursorAfter(s) == <<log_curr_seq'[s], log_curr_idx'[s]>>

C19_FirstOpen ==
    \A s \in Sessions \ private_data :
        log_lock = NoOwner =>
            ENABLED (/\ secure_log_open(s, 0)
                     /\ CursorAfter(s) =
                            IF opened THEN <<log_next_seq, log_next_idx>>
                            ELSE <<log_first_seq, log_first_idx>>)

\* with records in the buffer and every earlier session released, a session
\* that was opened and neither sought nor read is at the next-write position
C19_Witness ==
    /\ private_data = {"f2"}
    /\ lastseek = NoSeek
    /\ log_first_seq < log_next_seq
    /\ log_curr_seq["f2"] = log_next_seq
    /\ log_curr_idx["f2"] = log_next_idx

\* read() leaves the copy to the caller in this step
CopyStep(t) == rpc[t] = "copy" /\ rpc'[t] = "out"

\* C20 as stated: read() returns -EINVAL and copies nothing whenever the line
\* is longer than count, and returns the length of the line otherwise
C20_TooSmallOrWhole ==
    [][\A t \in Threads :
           CopyStep(t)
           => IF rloc[t].len > rloc'[t].count
              THEN rloc'[t].ret = -EINVAL /\ rloc'[t].copied = 0
              ELSE rloc'[t].ret = rloc[t].len]_vars

\* C20: read() returns -EINVAL and copies nothing whenever the line is longer
\* than count; otherwise it returns the length of the line, all of which the
\* caller got, unless copy_to_user fails, and then it returns -EFAULT
C20_TooSmallOrWholeOrFault ==
    [][\A t \in Threads :
           CopyStep(t)
           => IF rloc[t].len > rloc'[t].count
              THEN rloc'[t].ret = -EINVAL /\ rloc'[t].copied = 0
              ELSE \/ rloc'[t].ret = rloc[t].len /\ rloc'[t].copied = rloc[t].len
                   \/ rloc'[t].ret = -EFAULT]_vars

\* a line was copied into a buffer of exactly its length
C20_Witness ==
    /\ rpc["t1"] = "out"
    /\ rloc["t1"].len > 0
    /\ rloc["t1"].count = rloc["t1"].len
    /\ rloc["t1"].ret = rloc["t1"].len

(***************************************************************************)
(* Placement of the records in the arena.                                  *)
(***************************************************************************)
\* the length field of the header of an appended record
HeaderLen(h) == h.cells[1] + Radix * h.cells[2]

\* the lengths a record of the type may carry: path, arguments, fixed part
PathCap(type) ==
    LOG_BUF_LEN \div (IF type = LOG_NETWORK_INTERACTION THEN 16 ELSE 32)

ArgvCap(type) ==
    IF type = LOG_NETWORK_INTERACTION THEN 0 ELSE LOG_BUF_LEN \div 32

FixedSize(type) ==
    IF type = LOG_NETWORK_INTERACTION THEN SizeofNetlogLog ELSE SizeofExeclogLog

\* C21: whatever the lengths a producer is called with, the path length it
\* stores is at most LOG_BUF_LEN / 16 (network) or LOG_BUF_LEN / 32
\* (execution), the argument length at most LOG_BUF_LEN / 32, the length of
\* the record is the fixed size plus the stored lengths and smaller than the
\* arena, and the place found lies inside the arena with at most all
\* retained records evicted
C21_TruncationCap ==
    /\ \A p \in Producers :
           ppc[p] \in InStore =>
               /\ prec[p].path_len <= PathCap(prec[p].type)
               /\ prec[p].argv_len <= ArgvCap(prec[p].type)
               /\ prec[p].record_size = FixedSize(prec[p].type)
                      + prec[p].path_len + prec[p].argv_len
               /\ prec[p].record_size < LOG_BUF_LEN
               /\ log_next_idx + prec[p].record_size <= LOG_BUF_LEN
               /\ log_first_seq <= log_next_seq
    /\ \A i \in 1..Len(hist) :
           /\ HeaderLen(hist[i]) = Len(hist[i].cells)
           /\ HeaderLen(hist[i]) <= FixedSize(hist[i].type)
                  + PathCap(hist[i].type) + ArgvCap(hist[i].type)
           /\ hist[i].line.path <= PathCap(hist[i].type)

\* a producer called with a path longer than the cap has written its
\* record, which carries the capped length, after older records were evicted
C21_Witness ==
    /\ ppc["p1"] = "advance"
    /\ prec["p1"].type = LOG_NETWORK_INTERACTION
    /\ prec["p1"].strlen + 1 > PathCap(LOG_NETWORK_INTERACTION)
    /\ prec["p1"].path_len = PathCap(LOG_NETWORK_INTERACTION)
    /\ log_first_seq > 0

\* C22: the length in the header of every appended record, the offset of
\* every record and the next-write offset are multiples of LOG_ALIGN
C22_AlignedRecords ==
    /\ \A i \in 1..Len(hist) :
           /\ HeaderLen(hist[i]) % LOG_ALIGN = 0
           /\ hist[i].idx % LOG_ALIGN = 0
    /\ log_next_idx % LOG_ALIGN = 0

\* find_new_record_place has run in this step
PlaceStep(p) == ppc[p] = "idle" /\ ppc'[p] = "fill"

\* is idx the offset target, or the wrap marker that stands for offset 0
StandsFor(buf, idx, target) ==
    idx = target \/ (ReadSizeT(buf, idx) = 0 /\ target = 0)

\* C23: the evictions of one find_new_record_place remove the records of
\* the lowest sequence numbers, one for every increment of log_first_seq:
\* afterwards log_first_seq is at most log_next_seq and log_first_idx is at
\* the record of sequence number log_first_seq (or at the wrap marker that
\* stands for it), which is the place of the new record if none is left
C23_EvictsOldestOnly ==
    [][\A p \in Producers :
           (PlaceStep(p) /\ log_first_seq' > log_first_seq)
           => /\ log_first_seq' <= log_next_seq
              /\ StandsFor(log_buf', log_first_idx',
                           IF log_first_seq' < log_next_seq
                           THEN hist[log_first_seq' + 1].idx
                           ELSE log_next_idx')]_vars

\* the space an append of p asks for: the aligned size and one header
Needed(p) == AlignUp(prec'[p].record_size) + SizeofSecLog

\* an append of p that does not fit between the write offset and the arena end
WrapStep(p) == PlaceStep(p) /\ log_next_idx + Needed(p) >= LOG_BUF_LEN

C25_WritesInsideArena ==
    /\ log_next_idx + SizeofSecLog < LOG_BUF_LEN
    /\ ~overrun
    /\ \A p \in Producers :
           ppc[p] \in InStore =>
               log_next_idx + prec[p].record_size <= LOG_BUF_LEN

\* a record was appended to a buffer from which every record had been
\* evicted, after the wrap marker was written
C25_Witness ==
    /\ ppc["p1"] = "advance"
    /\ log_first_seq = log_next_seq
    /\ log_next_seq > 0
    /\ log_next_idx = 0

(***************************************************************************)
(* The cursors of the sessions.                                            *)
(***************************************************************************)
\* C26: for every open session whose cursor sequence lies in
\* [oldest sequence, next sequence), the cursor offset is the start of the
\* intact record appended with that sequence number, or the wrap marker
\* standing for that record at offset 0
C26_CursorOnRecord ==
    \A s \in private_data :
        (log_first_seq <= log_curr_seq[s] /\ log_curr_seq[s] < log_next_seq)
        => LET h == hist[log_curr_seq[s] + 1]
           IN  /\ StandsFor(log_buf, log_curr_idx[s], h.idx)
               /\ ReadCells(log_buf, h.idx, Len(h.cells)) = h.cells

\* the step of read() that renders the current record
RenderStep(t) == rpc[t] = "render" /\ rpc'[t] = "copy"

\* the step of read() that reports the loss of records
DataLossStep(t) == rpc[t] = "overflow" /\ rpc'[t] = "out"

\* C27: a read() that reaches the rendering step advances the cursor of its
\* session by one record, to the sequence number and the start of the record
\* that follows the rendered one, whether or not the delivery then succeeds;
\* every other step of read() but the report of a data loss, the ones that
\* end it with would_block, end_of_stream or interruption included, leaves
\* the cursors unchanged
C27_ConsumedOnFailure ==
    [][\A t \in Threads :
           LET s == rloc[t].file
               ridx == CurrentRecord(log_buf, log_curr_idx[s])
           IN  /\ RenderStep(t)
                  => /\ log_curr_seq'[s] = log_curr_seq[s] + 1
                     /\ log_curr_idx'[s] = ridx + ReadSizeT(log_buf, ridx)
               /\ (rpc'[t] # rpc[t] /\ ~RenderStep(t) /\ ~DataLossStep(t))
                  => /\ log_curr_seq' = log_curr_seq
                     /\ log_curr_idx' = log_curr_idx
                     /\ rpc'[t] = "out"
                        => rloc'[t].ret \in {-EAGAIN, 0, -ERESTARTSYS,
                                              -EINVAL, -EFAULT, rloc[t].len}]_vars

(***************************************************************************)
(* Network probes: the shared hook on sys_close.                           *)
(***************************************************************************)
\* in this step the close hook starts the append of a record for pid
CloseAppendStep(pid) ==
    /\ ppc[pid] = "idle"
    /\ ppc'[pid] = "fill"
    /\ plast'[pid].op \in {"close", "PROTO_TCP", "PROTO_UDP"}

\* C28: the close hook appends a TCP CLOSE record only for a TCP socket with
\* a destination port other than 0 while PROBE_TCP_CLOSE is in loaded_probes,
\* a UDP CLOSE record only for a UDP socket with a source port other than 0
\* while PROBE_UDP_CLOSE is in loaded_probes, and no other record
C28_CloseOnlyIfLoaded ==
    [][\A pid \in Producers :
           CloseAppendStep(pid)
           => LET sock == plast'[pid].sock
              IN  \/ /\ plast'[pid].op = "PROTO_TCP"
                     /\ "PROBE_TCP_CLOSE" \in loaded_probes
                     /\ sock \in {"tcp", "tcp_listening"}
                     /\ DPORT(sock) # 0
                  \/ /\ plast'[pid].op = "PROTO_UDP"
                     /\ "PROBE_UDP_CLOSE" \in loaded_probes
                     /\ sock \in {"udp", "udp_unbound"}
                     /\ SPORT(sock) # 0]_vars

\* with only PROBE_UDP_CLOSE loaded the hook ran for the close of a connected
\* TCP socket and appended nothing, after it had appended a record for a UDP
\* socket
C28_Witness ==
    /\ loaded_probes = {"PROBE_UDP_CLOSE"}
    /\ registered["close_jprobe"] > 0
    /\ plast["p1"] = [op |-> "close", sock |-> "tcp"]
    /\ ppc["p1"] = "idle"
    /\ log_next_seq = 1

====
